---- MODULE Spec2Model ----
(***************************************************************************)
(* Placement attempt state machine of wurloLanding:                        *)
(*   POST /onboarding/answer   (routes/onboardingRoutes.js)                *)
(*   evaluateTextAnswer        (services/textAnswerEvaluator.js)           *)
(*   transformQuestion         (services/placementTestService.js)          *)
(*   generateAndStorePlacementTest (services/placementTestService.js)      *)
(*   summarizePlacementResults (services/geminiClient.js)                  *)
(*   generateCompletion        (services/grokClient.js)                    *)
(*   retryWithBackoff          (utils/retry)                               *)
(* Text is modelled as a sequence of one-character strings. JavaScript     *)
(* null is Null; a JavaScript boolean-or-null is "true", "false", "null".  *)
(* Every await of the handler is one atomic step of a call, so that two    *)
(* requests interleave exactly where the event loop lets them.             *)
(***************************************************************************)
EXTENDS Integers, Sequences, FiniteSets, TLC

\* ------------------------------------------------------------------ bounds
MaxCalls == 3          \* requests started in one behaviour of Spec
MaxSeqCalls == 4       \* requests started in one behaviour of SpecSeq
MaxProbeCalls == 2     \* requests started in one behaviour of SpecProbe
MaxInFlight == 2       \* request slots: requests that can overlap in Spec
MaxBackfillCalls == 2  \* requests started in one behaviour of SpecBackfill
MaxGenRuns == 2        \* generateAndStorePlacementTest calls in one behaviour of SpecGen
MaxSynRuns == 1        \* summarizePlacementResults calls in one behaviour of SpecSynth
MaxClientCalls == 2    \* generation client calls in one behaviour of SpecClient
MaxRetryRuns == 2      \* retryWithBackoff runs in one behaviour of SpecRetry

\* ------------------------------------------------------------ text helpers
Null == <<"<null>">>

LowerChars == <<"a","b","c","d","e","f","g","h","i","j","k","l","m",
                "n","o","p","q","r","s","t","u","v","w","x","y","z">>
UpperChars == <<"A","B","C","D","E","F","G","H","I","J","K","L","M",
                "N","O","P","Q","R","S","T","U","V","W","X","Y","Z">>

ToUpperCase(ch) ==
  IF \E i \in 1..Len(LowerChars) : LowerChars[i] = ch
  THEN UpperChars[CHOOSE i \in 1..Len(LowerChars) : LowerChars[i] = ch]
  ELSE ch

ToLowerCase(ch) ==
  IF \E i \in 1..Len(UpperChars) : UpperChars[i] = ch
  THEN LowerChars[CHOOSE i \in 1..Len(UpperChars) : UpperChars[i] = ch]
  ELSE ch

LowerStr(s) == [i \in 1..Len(s) |-> ToLowerCase(s[i])]

IsWS(ch) == ch \in {" ", "\t", "\n"}

MinOf(S) == CHOOSE x \in S : \A y \in S : x <= y
MaxOf(S) == CHOOSE x \in S : \A y \in S : x >= y

\* String.prototype.trim
Trim(s) ==
  LET keep == {i \in 1..Len(s) : ~IsWS(s[i])}
  IN IF keep = {} THEN <<>> ELSE SubSeq(s, MinOf(keep), MaxOf(keep))

\* String(value ?? '')
StringOrEmpty(v) == IF v = Null THEN <<>> ELSE v

IsChoiceLetter(ch) == ToUpperCase(ch) \in {"A", "B", "C", "D"}

\* raw.match(/^[A-D]/i): the matched text, or Null
MatchLeadingLetter(raw) ==
  IF Len(raw) > 0 /\ IsChoiceLetter(raw[1]) THEN <<raw[1]>> ELSE Null

\* raw.match(/([A-D])/i): the first occurrence anywhere, or Null
MatchAnyLetter(raw) ==
  LET hits == {i \in 1..Len(raw) : IsChoiceLetter(raw[i])}
  IN IF hits = {} THEN Null ELSE <<raw[MinOf(hits)]>>

normalizeChoiceLetter(value) ==
  LET raw == Trim(StringOrEmpty(value))
      m1 == MatchLeadingLetter(raw)
      letterMatch == IF m1 # Null THEN m1 ELSE MatchAnyLetter(raw)
  IN IF letterMatch = Null
     THEN (IF Len(raw) = 0 THEN <<>> ELSE <<ToUpperCase(raw[1])>>)
     ELSE <<ToUpperCase(letterMatch[1])>>

\* response !== undefined && response !== null && String(response).trim() !== ''
hasTypedResponse(response) == response # Null /\ Trim(response) # <<>>

\* sanitizeString of textAnswerEvaluator.js
sanitizeString(value) ==
  IF value = Null THEN Null
  ELSE IF Len(Trim(value)) > 0 THEN Trim(value) ELSE Null

\* JavaScript truthiness of a nullable string
Truthy(s) == s # Null /\ s # <<>>

\* ------------------------------------------------- test generation output
\* String(question.type || '').toLowerCase() on the type spellings used here
TypeLower(t) ==
  CASE t = "Multiple_Choice" -> "multiple_choice"
    [] t = "SCENARIO" -> "scenario"
    [] OTHER -> t

normalizeCorrectAnswer(value) ==
  IF value = Null THEN Null
  ELSE LET trimmed == Trim(value)
           lower == LowerStr(trimmed)
       IN IF trimmed = <<>> THEN Null
          ELSE IF lower \in {<<"n","u","l","l">>, <<"n","/","a">>, <<"n","o","n","e">>}
               THEN Null
               ELSE trimmed

\* a multiple_choice declaration kept as declared, whatever its options and answer
transformQuestion_keepDeclared(question) ==
  LET rawType == TypeLower(question.type)
      type == IF rawType \in {"scenario", "multiple_choice"} THEN rawType ELSE "text"
  IN [keep |-> Trim(question.question) # <<>>,
      type |-> type,
      options |-> IF type = "multiple_choice" THEN question.options ELSE <<>>,
      correct_answer |-> IF type = "multiple_choice"
                         THEN normalizeCorrectAnswer(question.correct_answer) ELSE Null,
      question_text |-> Trim(question.question)]

\* transformQuestion: keep = FALSE stands for the null it returns
transformQuestion(question) ==
  LET rawType == TypeLower(question.type)
      normalizedOptions == SelectSeq([i \in 1..Len(question.options) |-> Trim(question.options[i])],
                                     LAMBDA o : Len(o) > 0)
      normalizedAnswer == normalizeCorrectAnswer(question.correct_answer)
      type == IF rawType = "scenario" THEN "scenario"
              ELSE IF rawType = "multiple_choice" /\ Len(normalizedOptions) >= 2
                      /\ Truthy(normalizedAnswer)
                   THEN "multiple_choice"
                   ELSE "text"
      questionText == Trim(question.question)
  IN [keep |-> questionText # <<>>,
      type |-> type,
      options |-> IF type = "multiple_choice" THEN normalizedOptions ELSE <<>>,
      correct_answer |-> IF type = "multiple_choice" THEN normalizedAnswer ELSE Null,
      question_text |-> questionText]

Opts4 == << <<"x">>, <<"y">>, <<" ">>, <<"z">> >>
RawQ(t, o, a, q) == [type |-> t, options |-> o, correct_answer |-> a, question |-> q]

\* What the generator returned for each stored test (test 3 is a test whose
\* questions are not visible to the answer route: it has none).
Generated ==
  << << RawQ("multiple_choice", Opts4, <<" ","B">>, <<"q","1">>),
        RawQ("Multiple_Choice", Opts4, <<"N","/","A">>, <<"q","2">>) >>,
     << RawQ("multiple_choice", Opts4, <<"D">>, <<"q","3">>),
        RawQ("text", <<>>, <<"r","e","f">>, <<" "," ">>),
        RawQ("essay", <<>>, Null, <<"q","4">>),
        RawQ("SCENARIO", Opts4, <<"B">>, <<"q","5">>) >>,
     << >> >>

TestIds == 1..Len(Generated)

\* generateAndStorePlacementTest: transform, drop the nulls
questionTransforms(t) ==
  SelectSeq([i \in 1..Len(Generated[t]) |-> transformQuestion(Generated[t][i])],
            LAMBDA x : x.keep)

\* persistPlacementQuestions: rows in generation order, ids from the sequence
RECURSIVE PersistAll(_)
PersistAll(t) ==
  IF t = 0 THEN <<>>
  ELSE PersistAll(t - 1) \o
       [i \in 1..Len(questionTransforms(t)) |->
          [test_id |-> t,
           type |-> questionTransforms(t)[i].type,
           correct_answer |-> questionTransforms(t)[i].correct_answer]]

InitQuestions == PersistAll(Len(Generated))
QuestionIds == 1..Len(InitQuestions)

\* placement_attempts rows that exist when answering starts
InitAttempts ==
  << [user_id |-> "u1", test_id |-> 1, completed |-> FALSE, end_time |-> 0],
     [user_id |-> "u2", test_id |-> 2, completed |-> FALSE, end_time |-> 0],
     [user_id |-> "u1", test_id |-> 3, completed |-> FALSE, end_time |-> 0] >>
AttemptIds == 1..Len(InitAttempts)

\* ------------------------------------------------- placement test generation
\* What JSON.parse can hand back: null stands for text that does not parse
NullParsed == [isNull |-> TRUE, hasArray |-> FALSE, questions |-> <<>>]
Parsed(hasArray, qs) == [isNull |-> FALSE, hasArray |-> hasArray, questions |-> qs]

\* a generated test whose multiple-choice question comes with five options
Opts5 == << <<"v">>, <<"w">>, <<"x">>, <<"y">>, <<"z">> >>
FiveOptionQuestions ==
  << RawQ("text", <<>>, Null, <<"q","6">>),
     RawQ("multiple_choice", Opts5, <<"E">>, <<"q","7">>) >>

\* What the generation endpoint does for one test request: it throws, or it
\* answers without text, with prose, or with JSON (bare or in a code fence)
GenResponses ==
  { [kind |-> "throw",  payload |-> NullParsed],
    [kind |-> "notext", payload |-> NullParsed],
    [kind |-> "prose",  payload |-> NullParsed],
    [kind |-> "json",   payload |-> Parsed(FALSE, <<>>)],
    [kind |-> "json",   payload |-> Parsed(TRUE, <<>>)],
    [kind |-> "json",   payload |-> Parsed(TRUE, << RawQ("text", <<>>, Null, <<" ">>) >>)],
    [kind |-> "fenced", payload |-> Parsed(TRUE, Generated[2])],
    [kind |-> "json",   payload |-> Parsed(TRUE, Generated[1])],
    [kind |-> "json",   payload |-> Parsed(TRUE, FiveOptionQuestions)] }

\* parseJsonSafe(extractTextFromAIResponse(response))
parseJsonSafe(response) ==
  IF response.kind \in {"json", "fenced"} THEN response.payload ELSE NullParsed

\* an empty questions array passes
isValidPlacement_anyArray(candidate) ==
  ~candidate.isNull /\ candidate.hasArray

isValidPlacement(candidate) ==
  ~candidate.isNull /\ candidate.hasArray /\ Len(candidate.questions) > 0

\* attempts[index] and enforceJson of the request loop
attemptPrompt(index) == IF index = 0 THEN "base" ELSE "base+json-only"
enforceJson(index) == index > 0
PromptCount == 2

\* (placementTest.questions || []).map(transformQuestion).filter(Boolean)
transformAll(qs) ==
  SelectSeq([i \in 1..Len(qs) |-> transformQuestion(qs[i])], LAMBDA x : x.keep)

\* the test_questions row of one transform
questionRow(sessionId, transform) ==
  [session_id |-> sessionId, type |-> transform.type,
   options |-> transform.options,
   correct_answer |-> transform.correct_answer,
   question_text |-> transform.question_text]

\* rows of test_questions that belong to one test_sessions row, in id order
rowsOfSession(rows, sessionId) ==
  SelectSeq(rows, LAMBDA r : r.session_id = sessionId)

\* ---------------------------------------------------------- plan synthesis
\* Text of the synthesizer is a sequence of tokens. "H3" is the heading
\* '## 📚 3. Learning Plan' with its newline, "PH" is
\* '{{learning_plan_placeholder}}', "LP" is the heading '## Learning Plan',
\* "sk" a module with its unfilled placeholder, "$$" and "$&" are those
\* characters in running text, "nl2" is two newlines. "N3" and "N4" are the
\* headings '## 3. Learning Plan' and '## 4. Learning Plan'; the heading
\* '### Learning Plan' is "#" followed by "LP", as '## Learning Plan' is a
\* part of it.
TokLen(tok) ==
  CASE tok = "intro" -> 60
    [] tok = "tmpl"  -> 120
    [] tok = "H3"    -> 23
    [] tok = "PH"    -> 29
    [] tok = "LP"    -> 16
    [] tok = "sk"    -> 40
    [] tok = "fill"  -> 90
    [] OTHER         -> 2

RECURSIVE TextLen(_)
TextLen(text) == IF text = <<>> THEN 0 ELSE TokLen(Head(text)) + TextLen(Tail(text))

\* String.prototype.indexOf on token text: 0 when absent
IndexOf(text, pat) ==
  LET hits == {i \in 1..(Len(text) - Len(pat) + 1) : SubSeq(text, i, i + Len(pat) - 1) = pat}
  IN IF hits = {} \/ pat = <<>> THEN 0 ELSE MinOf(hits)

Includes(text, pat) == IndexOf(text, pat) > 0

\* the replacement patterns String.prototype.replace expands in a string
\* replacement: $$ is one dollar, $& is the matched text
RECURSIVE DollarExpand(_, _)
DollarExpand(repl, matched) ==
  IF repl = <<>> THEN <<>>
  ELSE (CASE Head(repl) = "$$" -> <<"$">>
          [] Head(repl) = "$&" -> matched
          [] OTHER -> <<Head(repl)>>) \o DollarExpand(Tail(repl), matched)

\* text.replace(pat, repl) with a string pattern: the first occurrence only
Replace(text, pat, repl) ==
  LET i == IndexOf(text, pat)
  IN IF i = 0 THEN text
     ELSE SubSeq(text, 1, i - 1) \o DollarExpand(repl, pat)
          \o SubSeq(text, i + Len(pat), Len(text))

blockPlaceholder == <<"H3", "PH">>
barePlaceholder == <<"PH">>

\* the detail text appended whatever the document holds
stitch_alwaysAppend(stage1RawResponse, stage3RawResponse) ==
  stage1RawResponse \o <<"nl2">> \o stage3RawResponse

\* lines 643-653
stitch(stage1RawResponse, stage3RawResponse) ==
  IF stage3RawResponse = <<>> THEN stage1RawResponse
  ELSE IF Includes(stage1RawResponse, blockPlaceholder)
       THEN Replace(stage1RawResponse, blockPlaceholder, stage3RawResponse)
  ELSE IF Includes(stage1RawResponse, barePlaceholder)
       THEN Replace(stage1RawResponse, barePlaceholder, stage3RawResponse)
  ELSE stage1RawResponse \o <<"nl2">> \o stage3RawResponse

sectionMarkers == << <<"H3">>, <<"N3">>, <<"N4">>, <<"LP">>, <<"#", "LP">> >>

\* the marker that comes first in the text, wherever it is in the list
extractLearningPlanSection_earliestInText(fullResponse) ==
  LET starts == {IndexOf(fullResponse, sectionMarkers[m]) : m \in 1..Len(sectionMarkers)} \ {0}
  IN IF starts = {} THEN fullResponse
     ELSE SubSeq(fullResponse, MinOf(starts), Len(fullResponse))

\* extractLearningPlanSection: the first marker of the list that occurs
extractLearningPlanSection(fullResponse) ==
  LET found == {m \in 1..Len(sectionMarkers) : Includes(fullResponse, sectionMarkers[m])}
  IN IF found = {} THEN fullResponse
     ELSE SubSeq(fullResponse, IndexOf(fullResponse, sectionMarkers[MinOf(found)]),
                 Len(fullResponse))

\* stringOr(value, fallback) on the goal and experience values used here:
\* null, the empty string and a blank string give the fallback
BlankValues == {"<null>", "", " "}
stringOr(value, fallback) == IF value \in BlankValues THEN fallback ELSE value

\* Math.round(correct / total * 100) of the fallback framework; 0 / 0 is NaN
scorePercent(correct, total) ==
  IF total = 0 THEN "NaN" ELSE ToString((200 * correct + total) \div (2 * total))

\* line 523: the fallback framework
fallbackFramework(goal, experience, correct, total) ==
  << "tmpl", stringOr(goal, "Clarify learner goal"), stringOr(experience, "Not provided"),
     scorePercent(correct, total) >>

\* what one generation call of the synthesizer does: it throws, or it
\* answers without text, or with text
SynOutcome(kind, text) == [kind |-> kind, text |-> text]
Stage1Outcomes ==
  { SynOutcome("throw", <<>>), SynOutcome("notext", <<>>),
    SynOutcome("text", <<"intro", "H3", "PH", "tail">>),
    SynOutcome("text", <<"intro", "PH">>),
    SynOutcome("text", <<"intro", "PH", "mid", "PH">>),
    SynOutcome("text", <<"hi">>) }
Stage2Outcomes ==
  { SynOutcome("throw", <<>>), SynOutcome("notext", <<>>),
    SynOutcome("text", <<"pre", "LP", "sk">>),
    SynOutcome("text", <<"LP", "sk", "H3", "sk">>),
    SynOutcome("text", <<"#", "LP", "sk">>),
    SynOutcome("text", <<"sk", "$$">>) }
Stage3Outcomes ==
  { SynOutcome("throw", <<>>), SynOutcome("notext", <<>>),
    SynOutcome("text", <<"LP", "fill">>),
    SynOutcome("text", <<"fill", "$&">>) }

\* what a renderer call does: a Buffer, an exception, nothing, or a value
\* that is not a Buffer
RenderOutcomes == {"buffer", "throw", "null", "nonbuffer"}

\* ---------------------------------------------------------- answer judge
\* What the generation endpoint does for one judge request: it throws, or it
\* returns text that is not JSON, or JSON that is falsy, or a JSON object.
JudgeOutcomes ==
  { [kind |-> "throw",    is_correct |-> "missing", ideal_answer |-> Null],
    [kind |-> "nonjson",  is_correct |-> "missing", ideal_answer |-> Null],
    [kind |-> "jsonnull", is_correct |-> "missing", ideal_answer |-> Null],
    [kind |-> "json",     is_correct |-> "true",    ideal_answer |-> <<"o","k">>],
    [kind |-> "json",     is_correct |-> "false",   ideal_answer |-> <<" ">>],
    [kind |-> "json",     is_correct |-> "missing", ideal_answer |-> <<"o","k">>],
    [kind |-> "json",     is_correct |-> "string",  ideal_answer |-> Null] }

NoJudge == [kind |-> "none", is_correct |-> "missing", ideal_answer |-> Null]

\* a ?? b
Coalesce(a, b) == IF a # Null THEN a ELSE b

\* evaluateTextAnswer: isCorrect is "true", "false" or "null"
evaluateTextAnswer(out, referenceAnswer) ==
  IF out.kind \in {"throw", "nonjson", "jsonnull"}
  THEN [isCorrect |-> "null", idealAnswer |-> referenceAnswer]
  ELSE [isCorrect |-> IF out.is_correct \in {"true", "false"} THEN out.is_correct ELSE "null",
        idealAnswer |-> Coalesce(sanitizeString(out.ideal_answer), referenceAnswer)]

\* the evaluator's verdict used as it comes
collapseVerdict_passThrough(v) == v

\* typeof evaluation.isCorrect === 'boolean' ? evaluation.isCorrect : false
collapseVerdict(v) == IF v \in {"true", "false"} THEN v ELSE "false"

\* isCorrect = question.correct_answer ? userResponse === question.correct_answer : null
choiceVerdict(userResponse, correct_answer) ==
  IF Truthy(correct_answer)
  THEN (IF userResponse = correct_answer THEN "true" ELSE "false")
  ELSE "null"

\* userResponse = ['A','B','C','D'].includes(choice) ? choice : null
choiceResponse(response) ==
  LET choice == normalizeChoiceLetter(response)
  IN IF choice \in {<<"A">>, <<"B">>, <<"C">>, <<"D">>} THEN choice ELSE Null

\* a skip flag honoured only when no response was typed
localVerdict_skipOnlyIfEmpty(skip, qType, correct_answer, response) ==
  IF skip /\ ~hasTypedResponse(response)
  THEN [pc |-> "checkExisting", userResponse |-> Null, isCorrect |-> "false"]
  ELSE IF qType = "multiple_choice"
  THEN [pc |-> "checkExisting", userResponse |-> choiceResponse(response),
        isCorrect |-> choiceVerdict(choiceResponse(response), correct_answer)]
  ELSE [pc |-> "judge", userResponse |-> Trim(StringOrEmpty(response)), isCorrect |-> "null"]

\* lines 172-209 without the awaits: a skip and a multiple-choice answer are
\* decided on the spot, any other answer goes to the judge
localVerdict(skip, qType, correct_answer, response) ==
  IF skip
  THEN [pc |-> "checkExisting", userResponse |-> Null, isCorrect |-> "false"]
  ELSE IF qType = "multiple_choice"
  THEN [pc |-> "checkExisting", userResponse |-> choiceResponse(response),
        isCorrect |-> choiceVerdict(choiceResponse(response), correct_answer)]
  ELSE [pc |-> "judge", userResponse |-> Trim(response), isCorrect |-> "null"]

\* evaluationIdealAnswer && (!question.correct_answer || !String(question.correct_answer).trim())
needsBackfill(idealAnswer, correct_answer) ==
  Truthy(idealAnswer) /\ (~Truthy(correct_answer) \/ Trim(correct_answer) = <<>>)

\* ------------------------------------------------------------------ storage
\* the table without its unique constraint
uniqueViolation_absent(rows, a, q) == FALSE

\* UNIQUE (attempt_id, question_id) on placement_attempt_questions
uniqueViolation(rows, a, q) == \E r \in rows : r.attempt_id = a /\ r.question_id = q

\* SELECT id ... WHERE attempt_id = ? AND question_id = ? LIMIT 1  (0: no row)
selectExisting(rows, a, q) ==
  LET hit == {r.id : r \in {x \in rows : x.attempt_id = a /\ x.question_id = q}}
  IN IF hit = {} THEN 0 ELSE MinOf(hit)

\* SELECT COUNT(*) FROM placement_questions WHERE test_id = ?
countQuestions(qs, t) == Cardinality({i \in DOMAIN qs : qs[i].test_id = t})

\* the count taken as "rows so far plus the one being submitted"
countAnswered_plusPending(rows, a) == Cardinality({r \in rows : r.attempt_id = a}) + 1

\* SELECT COUNT(*) FROM placement_attempt_questions WHERE attempt_id = ?
countAnswered(rows, a) == Cardinality({r \in rows : r.attempt_id = a})

\* completion one answer early
isCompleted_offByOne(total, answered) == total > 0 /\ answered + 1 >= total

\* completed = total > 0 && answered >= total
isCompleted(total, answered) == total > 0 /\ answered >= total

\* -------------------------------------------------------- generation clients
\* Who calls a client, and which one: the test generator and the three
\* synthesis stages call grokClient.generateCompletion, the answer judge
\* calls geminiClient.generateContent
ClientCallers ==
  {"requestPlacementTest", "evaluateTextAnswer", "stage1", "stage2", "stage3"}
providerOf(caller) == IF caller = "evaluateTextAnswer" THEN "Gemini" ELSE "Grok"

\* What client.post can reject with: error.code, what error.message holds,
\* and whether the provider answered with an error body
NoPostError == [code |-> "", message |-> "", apiError |-> FALSE]
PostErrors ==
  [code : {"ECONNRESET", "ECONNABORTED", "ETIMEDOUT", ""},
   message : {"network", "socket", "other"},
   apiError : BOOLEAN]

\* the catch of generateCompletion / generateContent: the Error thrown on
clientError(provider, error) ==
  IF error.code \in {"ECONNRESET", "ECONNABORTED"}
  THEN <<provider, "connection error. Please try again.">>
  ELSE IF error.message \in {"network", "socket"}
  THEN <<provider, "network error. Please try again.">>
  ELSE IF error.apiError THEN <<provider, "api error">>
  ELSE <<provider, "message">>

\* ----------------------------------------------------------- retryWithBackoff
DefaultMaxRetries == 3
DefaultInitialDelayMs == 2000
DefaultMaxDelayMs == 30000

\* An error of fn is the set of these words its lowercased message contains
\* (no message at all: the empty set)
ErrorWords == {"unauthorized", "forbidden", "not found", "invalid", "timeout"}
Undefined == {"<undefined>"}

\* only the three named classes
isNonRetryable_threeClasses(errorMessage) ==
  \/ "unauthorized" \in errorMessage
  \/ "forbidden" \in errorMessage
  \/ "not found" \in errorMessage

\* lines 198-202: a || b || c || (d && !e)
isNonRetryable(errorMessage) ==
  \/ "unauthorized" \in errorMessage
  \/ "forbidden" \in errorMessage
  \/ "not found" \in errorMessage
  \/ ("invalid" \in errorMessage /\ "timeout" \notin errorMessage)

RECURSIVE Pow2(_)
Pow2(n) == IF n = 0 THEN 1 ELSE 2 * Pow2(n - 1)

\* Math.min(Math.pow(2, attempt) * initialDelayMs, maxDelayMs)
delayMs(attempt, initialDelayMs, maxDelayMs) ==
  MinOf({Pow2(attempt) * initialDelayMs, maxDelayMs})

\* retryApiCall's options
retryApiCall ==
  [maxRetries |-> DefaultMaxRetries, initialDelayMs |-> DefaultInitialDelayMs,
   maxDelayMs |-> DefaultMaxDelayMs]

\* -------------------------------------------------------------------- state
VARIABLES
  attempts,          \* placement_attempts: id -> row
  questions,         \* placement_questions: id -> row
  answers,           \* placement_attempt_questions: set of rows
  nextId,            \* serial of placement_attempt_questions.id
  call,              \* per request slot: position and locals of the handler
  started,           \* requests received so far (also the clock of end_time)
  completionWrites,  \* history: per attempt, executions of the completion UPDATE
  synthRuns,         \* history: per attempt, invocations of summarizePlacementResults
  succeeded,         \* history: (attempt, question) pairs answered with 200
  resubmitted,       \* history: per attempt, an answer row was updated in place
  test_sessions,     \* test_sessions: rows in id order
  test_questions,    \* test_questions: rows in id order
  api_usage,         \* api_usage: rows in id order
  gen,               \* position and locals of generateAndStorePlacementTest
  genRuns,           \* generateAndStorePlacementTest calls made so far
  syn,               \* position and locals of summarizePlacementResults
  synRuns,           \* summarizePlacementResults calls made so far
  client,            \* one call of a generation client: position and locals
  clientRuns,        \* generation client calls made so far
  retry,             \* one run of retryWithBackoff: position and locals
  retryRuns          \* retryWithBackoff runs made so far

answerVars == <<attempts, questions, answers, nextId, call, started,
                completionWrites, synthRuns, succeeded, resubmitted>>
genVars == <<test_sessions, test_questions, api_usage, gen, genRuns>>
synVars == <<syn, synRuns>>
clientVars == <<client, clientRuns>>
retryVars == <<retry, retryRuns>>

vars == <<attempts, questions, answers, nextId, call, started,
          completionWrites, synthRuns, succeeded, resubmitted,
          test_sessions, test_questions, api_usage, gen, genRuns, syn, synRuns,
          client, clientRuns, retry, retryRuns>>

Calls == 1..MaxInFlight

IdleCall ==
  [pc |-> "idle", user |-> "", attempt |-> 0, question |-> 0, response |-> Null,
   skip |-> FALSE, attCompleted |-> FALSE, test_id |-> 0, qType |-> "",
   qCorrect |-> Null, userResponse |-> Null, isCorrect |-> "null",
   idealAnswer |-> Null, existingId |-> 0, total |-> 0, answered |-> 0,
   completed |-> FALSE, status |-> "", judged |-> FALSE, judge |-> NoJudge,
   backfilled |-> FALSE, wrote |-> FALSE, marked |-> FALSE, synthesized |-> FALSE,
   hasResults |-> FALSE, plan |-> "null"]

\* locals of generateAndStorePlacementTest before it is called; calls and
\* responses are the requests made and what came back, results is the list
\* persistPlacementQuestions builds (the returned questions with their ids),
\* before is the size of the three tables when the call began
IdleGen ==
  [pc |-> "idle", user |-> "", index |-> 0, calls |-> <<>>, responses |-> <<>>,
   questions |-> <<>>, transforms |-> <<>>, testId |-> 0, persisted |-> 0,
   results |-> <<>>, error |-> "", before |-> [sessions |-> 0, questions |-> 0, usage |-> 0]]

\* locals of summarizePlacementResults before it is called; stage1, stage2,
\* stage3, markdown and legacy record what each call did ("none": not made)
IdleSyn ==
  [pc |-> "idle", goal |-> "", experience |-> "", correct |-> 0, total |-> 0,
   stage1 |-> "none", stage2 |-> "none", stage3 |-> "none",
   frameworkResponse |-> <<>>, stage1RawResponse |-> <<>>,
   stageStructure |-> <<>>, stage2RawResponse |-> <<>>,
   stage3Input |-> <<>>, stage3RawResponse |-> <<>>,
   combinedDocument |-> <<>>, markdown |-> "none", legacy |-> "none",
   pdf |-> FALSE, returned |-> FALSE,
   progress |-> [stage1_completed |-> FALSE, stage2_completed |-> FALSE,
                 stage3_completed |-> FALSE, pdf_generated |-> FALSE,
                 completed_stages |-> 0]]

\* r with the fields of u overwritten
Upd(r, u) == [f \in DOMAIN r |-> IF f \in DOMAIN u THEN u[f] ELSE r[f]]

Set(c, u) == call' = [call EXCEPT ![c] = Upd(call[c], u)]

Fail(c, code) == Set(c, [pc |-> "respond", status |-> code])

\* locals of one generateCompletion / generateContent call before it is made;
\* posts counts the HTTP requests sent, thrown is the message of the Error
\* the caller gets
IdleClient ==
  [pc |-> "idle", caller |-> "", provider |-> "", posts |-> 0,
   error |-> NoPostError, thrown |-> <<>>]

\* locals of retryWithBackoff before it is called; errors are the errors fn
\* threw in order, waits the delays slept, result the number of the fn call
\* whose value was returned, thrown the error thrown if any
IdleRetry ==
  [pc |-> "idle", maxRetries |-> 0, initialDelayMs |-> 0, maxDelayMs |-> 0,
   attempt |-> 0, invocations |-> 0, errors |-> <<>>, waits |-> <<>>,
   result |-> 0, thrown |-> <<>>]

Init ==
  /\ attempts = InitAttempts
  /\ questions = InitQuestions
  /\ answers = {}
  /\ nextId = 1
  /\ call = [c \in Calls |-> IdleCall]
  /\ started = 0
  /\ completionWrites = [a \in AttemptIds |-> 0]
  /\ synthRuns = [a \in AttemptIds |-> 0]
  /\ succeeded = {}
  /\ resubmitted = [a \in AttemptIds |-> FALSE]
  /\ test_sessions = <<>>
  /\ test_questions = <<>>
  /\ api_usage = <<>>
  /\ gen = IdleGen
  /\ genRuns = 0
  /\ syn = IdleSyn
  /\ synRuns = 0
  /\ client = IdleClient
  /\ clientRuns = 0
  /\ retry = IdleRetry
  /\ retryRuns = 0

\* ------------------------------------------------------------ request inputs
R_b        == <<"b">>
R_AnswerB  == <<"A","n","s","w","e","r",":"," ","B">>
R_BOption  == <<"B","."," ","t","h","e"," ","s","e","c","o","n","d"," ","o","p","t","i","o","n">>
R_A        == <<"A">>
R_Empty    == <<>>
R_NoLetter == <<" ","4","2","!">>

\* ------------------------------------------------------------------ actions
\* lines 107-136: destructure the body, validate, fall into the try block
Start(c, bound, Requests) ==
  /\ call[c].pc = "idle"
  /\ started < bound
  /\ \E req \in Requests :
       call' = [call EXCEPT ![c] = Upd(IdleCall,
            IF req.user = "" THEN req @@ [pc |-> "respond", status |-> "400 user_id"]
            ELSE IF req.attempt = 0 THEN req @@ [pc |-> "respond", status |-> "400 attempt_id"]
            ELSE IF req.question = 0 THEN req @@ [pc |-> "respond", status |-> "400 question_id"]
            ELSE IF ~req.skip /\ ~hasTypedResponse(req.response)
                 THEN req @@ [pc |-> "respond", status |-> "400 response"]
                 ELSE req @@ [pc |-> "loadAttempt"])]
  /\ started' = started + 1
  /\ UNCHANGED <<attempts, questions, answers, nextId, completionWrites, synthRuns,
                 succeeded, resubmitted>>

\* the attempt loaded without the ownership check
LoadAttempt_noOwnerCheck(c) ==
  /\ call[c].pc = "loadAttempt"
  /\ LET a == call[c].attempt
     IN IF a \notin DOMAIN attempts THEN Fail(c, "404 attempt")
        ELSE Set(c, [pc |-> "loadQuestion",
                     attCompleted |-> attempts[a].completed,
                     test_id |-> attempts[a].test_id])
  /\ UNCHANGED <<attempts, questions, answers, nextId, started, completionWrites,
                 synthRuns, succeeded, resubmitted>>

\* lines 146-157: load the attempt, 404 / 403
LoadAttempt(c) ==
  /\ call[c].pc = "loadAttempt"
  /\ LET a == call[c].attempt
     IN IF a \notin DOMAIN attempts THEN Fail(c, "404 attempt")
        ELSE IF attempts[a].user_id # call[c].user THEN Fail(c, "403")
        ELSE Set(c, [pc |-> "loadQuestion",
                     attCompleted |-> attempts[a].completed,
                     test_id |-> attempts[a].test_id])
  /\ UNCHANGED <<attempts, questions, answers, nextId, started, completionWrites,
                 synthRuns, succeeded, resubmitted>>

\* lines 159-209 up to the next await: load the question, 404 / 400, then the
\* synchronous part of the correctness decision (skip and multiple choice)
\* the question loaded without comparing its test with the attempt's
LoadQuestion_noTestCheck(c) ==
  /\ call[c].pc = "loadQuestion"
  /\ LET q == call[c].question
     IN IF q \notin DOMAIN questions THEN Fail(c, "404 question")
        ELSE Set(c, [qType |-> questions[q].type, qCorrect |-> questions[q].correct_answer]
                    @@ localVerdict(call[c].skip, questions[q].type,
                                    questions[q].correct_answer, call[c].response))
  /\ UNCHANGED <<attempts, questions, answers, nextId, started, completionWrites,
                 synthRuns, succeeded, resubmitted>>

LoadQuestion(c) ==
  /\ call[c].pc = "loadQuestion"
  /\ LET q == call[c].question
     IN IF q \notin DOMAIN questions THEN Fail(c, "404 question")
        ELSE IF questions[q].test_id # call[c].test_id THEN Fail(c, "400 mismatch")
        ELSE Set(c, [qType |-> questions[q].type, qCorrect |-> questions[q].correct_answer]
                    @@ localVerdict(call[c].skip, questions[q].type,
                                    questions[q].correct_answer, call[c].response))
  /\ UNCHANGED <<attempts, questions, answers, nextId, started, completionWrites,
                 synthRuns, succeeded, resubmitted>>

\* lines 183-204: await evaluateTextAnswer, collapse the verdict
Judge(c, Outcomes) ==
  /\ call[c].pc = "judge"
  /\ \E out \in Outcomes :
       LET evaluation == evaluateTextAnswer(out, call[c].qCorrect)
       IN Set(c, [pc |-> IF needsBackfill(evaluation.idealAnswer, call[c].qCorrect)
                         THEN "backfill" ELSE "checkExisting",
                  isCorrect |-> collapseVerdict(evaluation.isCorrect),
                  idealAnswer |-> evaluation.idealAnswer,
                  judged |-> TRUE,
                  judge |-> out])
  /\ UNCHANGED <<attempts, questions, answers, nextId, started, completionWrites,
                 synthRuns, succeeded, resubmitted>>

\* lines 202-203: UPDATE placement_questions SET correct_answer
Backfill(c) ==
  /\ call[c].pc = "backfill"
  /\ questions' = [questions EXCEPT ![call[c].question].correct_answer = call[c].idealAnswer]
  /\ Set(c, [pc |-> "checkExisting", qCorrect |-> call[c].idealAnswer, backfilled |-> TRUE])
  /\ UNCHANGED <<attempts, answers, nextId, started, completionWrites, synthRuns,
                 succeeded, resubmitted>>

\* lines 215-218: SELECT id of the existing answer row
CheckExisting(c) ==
  /\ call[c].pc = "checkExisting"
  /\ Set(c, [pc |-> "write",
             existingId |-> selectExisting(answers, call[c].attempt, call[c].question)])
  /\ UNCHANGED <<attempts, questions, answers, nextId, started, completionWrites,
                 synthRuns, succeeded, resubmitted>>

\* lines 220-245: UPDATE by id when a row was seen, INSERT otherwise; a
\* rejected INSERT throws into the catch of line 326 (502)
WriteAnswer(c) ==
  /\ call[c].pc = "write"
  /\ LET a == call[c].attempt
         q == call[c].question
     IN IF call[c].existingId > 0
        THEN /\ answers' = {IF r.id = call[c].existingId
                            THEN [r EXCEPT !.user_response = call[c].userResponse,
                                           !.is_correct = call[c].isCorrect]
                            ELSE r : r \in answers}
             /\ resubmitted' = [resubmitted EXCEPT ![a] = TRUE]
             /\ Set(c, [pc |-> "countTotal", wrote |-> TRUE])
             /\ UNCHANGED nextId
        ELSE IF uniqueViolation(answers, a, q)
        THEN /\ Fail(c, "502")
             /\ UNCHANGED <<answers, nextId, resubmitted>>
        ELSE /\ answers' = answers \cup
                  {[id |-> nextId, attempt_id |-> a, question_id |-> q,
                    user_response |-> call[c].userResponse,
                    is_correct |-> call[c].isCorrect]}
             /\ nextId' = nextId + 1
             /\ Set(c, [pc |-> "countTotal", wrote |-> TRUE])
             /\ UNCHANGED resubmitted
  /\ UNCHANGED <<attempts, questions, started, completionWrites, synthRuns, succeeded>>

\* lines 247-250
CountTotal(c) ==
  /\ call[c].pc = "countTotal"
  /\ Set(c, [pc |-> "countAnswered", total |-> countQuestions(questions, call[c].test_id)])
  /\ UNCHANGED <<attempts, questions, answers, nextId, started, completionWrites,
                 synthRuns, succeeded, resubmitted>>

\* lines 251-260
\* the answered count read from the rows as they were before this call's write
CountAnswered_beforeWrite(c) ==
  /\ call[c].pc = "countAnswered"
  /\ LET answered == countAnswered({r \in answers : r.question_id # call[c].question},
                                   call[c].attempt)
         completed == isCompleted(call[c].total, answered)
     IN Set(c, [pc |-> IF completed /\ ~call[c].attCompleted THEN "markCompleted"
                       ELSE IF completed THEN "summary" ELSE "respond",
                answered |-> answered, completed |-> completed, status |-> "200"])
  /\ UNCHANGED <<attempts, questions, answers, nextId, started, completionWrites,
                 synthRuns, succeeded, resubmitted>>

CountAnswered(c) ==
  /\ call[c].pc = "countAnswered"
  /\ LET answered == countAnswered(answers, call[c].attempt)
         completed == isCompleted(call[c].total, answered)
     IN Set(c, [pc |-> IF completed /\ ~call[c].attCompleted THEN "markCompleted"
                       ELSE IF completed THEN "summary" ELSE "respond",
                answered |-> answered, completed |-> completed, status |-> "200"])
  /\ UNCHANGED <<attempts, questions, answers, nextId, started, completionWrites,
                 synthRuns, succeeded, resubmitted>>

\* line 261: UPDATE placement_attempts SET completed = true, end_time = CURRENT_TIMESTAMP
MarkCompleted(c) ==
  /\ call[c].pc = "markCompleted"
  /\ attempts' = [attempts EXCEPT ![call[c].attempt].completed = TRUE,
                                  ![call[c].attempt].end_time = started]
  /\ completionWrites' = [completionWrites EXCEPT ![call[c].attempt] = @ + 1]
  /\ Set(c, [pc |-> "summary", marked |-> TRUE])
  /\ UNCHANGED <<questions, answers, nextId, started, synthRuns, succeeded, resubmitted>>

\* a throwing summarizePlacementResults reaches the catch of line 326
Summarize_propagates(c) ==
  /\ call[c].pc = "summary"
  /\ \E ok \in BOOLEAN :
       IF ok
       THEN Set(c, [pc |-> "respond", hasResults |-> TRUE, synthesized |-> TRUE,
                    plan |-> "plan"])
       ELSE Set(c, [pc |-> "respond", status |-> "502", hasResults |-> TRUE,
                    synthesized |-> TRUE, plan |-> "null"])
  /\ synthRuns' = [synthRuns EXCEPT ![call[c].attempt] = @ + 1]
  /\ UNCHANGED <<attempts, questions, answers, nextId, started, completionWrites,
                 succeeded, resubmitted>>

\* lines 266-312: read the result rows and call summarizePlacementResults,
\* which returns a summary or throws (then placement_summary is null)
Summarize(c) ==
  /\ call[c].pc = "summary"
  /\ \E ok \in BOOLEAN :
       Set(c, [pc |-> "respond", hasResults |-> TRUE, synthesized |-> TRUE,
               plan |-> IF ok THEN "plan" ELSE "null"])
  /\ synthRuns' = [synthRuns EXCEPT ![call[c].attempt] = @ + 1]
  /\ UNCHANGED <<attempts, questions, answers, nextId, started, completionWrites,
                 succeeded, resubmitted>>

\* lines 314-329: send the response; the slot is free for the next request
Respond(c) ==
  /\ call[c].pc = "respond"
  /\ succeeded' = IF call[c].status = "200"
                  THEN succeeded \cup {<<call[c].attempt, call[c].question>>}
                  ELSE succeeded
  /\ call' = [call EXCEPT ![c] = IdleCall]
  /\ UNCHANGED <<attempts, questions, answers, nextId, started, completionWrites,
                 synthRuns, resubmitted>>

Step(c, Outcomes) ==
  \/ LoadAttempt(c) \/ LoadQuestion(c) \/ Judge(c, Outcomes) \/ Backfill(c)
  \/ CheckExisting(c) \/ WriteAnswer(c) \/ CountTotal(c) \/ CountAnswered(c)
  \/ MarkCompleted(c) \/ Summarize(c) \/ Respond(c)

\* ------------------------------------------ generateAndStorePlacementTest
GenFail(g, error) == [g EXCEPT !.pc = "failed", !.error = error]

\* lines 163-191: what follows one returned response up to the next await
afterResponse(g, response) ==
  LET parsed == parseJsonSafe(response)
      transforms == transformAll(parsed.questions)
  IN IF isValidPlacement(parsed)
     THEN IF Len(transforms) = 0
          THEN GenFail([g EXCEPT !.questions = parsed.questions], "no usable questions")
          ELSE [g EXCEPT !.questions = parsed.questions, !.transforms = transforms,
                         !.pc = "insertSession"]
     ELSE IF g.index + 1 < PromptCount
          THEN [g EXCEPT !.index = g.index + 1]
          ELSE GenFail(g, "empty result")

\* lines 142-146: the argument checks
GenStart(Users) ==
  /\ gen.pc = "idle"
  /\ genRuns < MaxGenRuns
  /\ \E u \in Users :
       gen' = IF u = ""
              THEN GenFail([IdleGen EXCEPT !.user = u], "userId is required")
              ELSE [IdleGen EXCEPT !.pc = "request", !.user = u,
                      !.before = [sessions |-> Len(test_sessions),
                                  questions |-> Len(test_questions),
                                  usage |-> Len(api_usage)]]
  /\ genRuns' = genRuns + 1
  /\ UNCHANGED <<test_sessions, test_questions, api_usage>>

\* the test row written as soon as a response is valid, before the check for
\* usable questions
GenRequest_sessionFirst(Responses) ==
  /\ gen.pc = "request"
  /\ \E response \in Responses :
       LET sent == [gen EXCEPT !.calls = Append(@, [prompt |-> attemptPrompt(gen.index),
                                                     enforceJson |-> enforceJson(gen.index)]),
                               !.responses = Append(@, response)]
       IN /\ gen' = IF response.kind = "throw" THEN GenFail(sent, "transport")
                    ELSE afterResponse(sent, response)
          /\ test_sessions' =
               IF response.kind # "throw" /\ isValidPlacement(parseJsonSafe(response))
               THEN Append(test_sessions, [student_id |-> gen.user, total_questions |-> 0])
               ELSE test_sessions
  /\ UNCHANGED <<test_questions, api_usage, genRuns>>

\* lines 157-191: await requestPlacementTest, then validate and normalize
GenRequest(Responses) ==
  /\ gen.pc = "request"
  /\ \E response \in Responses :
       LET sent == [gen EXCEPT !.calls = Append(@, [prompt |-> attemptPrompt(gen.index),
                                                     enforceJson |-> enforceJson(gen.index)]),
                               !.responses = Append(@, response)]
       IN gen' = IF response.kind = "throw" THEN GenFail(sent, "transport")
                 ELSE afterResponse(sent, response)
  /\ UNCHANGED <<test_sessions, test_questions, api_usage, genRuns>>

\* lines 194-212: INSERT INTO test_sessions; the query succeeds or throws
GenInsertSession ==
  /\ gen.pc = "insertSession"
  /\ \E ok \in BOOLEAN :
       IF ok
       THEN /\ test_sessions' = Append(test_sessions,
                  [student_id |-> gen.user, total_questions |-> Len(gen.transforms)])
            /\ gen' = [gen EXCEPT !.pc = "insertQuestion", !.testId = Len(test_sessions) + 1]
       ELSE /\ gen' = GenFail(gen, "storage")
            /\ UNCHANGED test_sessions
  /\ UNCHANGED <<test_questions, api_usage, genRuns>>

\* the transforms persisted from the last one to the first
GenInsertQuestion_lastFirst ==
  /\ gen.pc = "insertQuestion"
  /\ \E ok \in BOOLEAN :
       IF ok
       THEN LET transform == gen.transforms[Len(gen.transforms) - gen.persisted]
            IN /\ test_questions' = Append(test_questions, questionRow(gen.testId, transform))
               /\ gen' = [gen EXCEPT !.persisted = gen.persisted + 1,
                            !.results = Append(@, [question_text |-> transform.question_text,
                                                   type |-> transform.type,
                                                   question_id |-> Len(test_questions) + 1]),
                            !.pc = IF gen.persisted + 1 = Len(gen.transforms)
                                   THEN "insertUsage" ELSE "insertQuestion"]
       ELSE /\ gen' = GenFail(gen, "storage")
            /\ UNCHANGED test_questions
  /\ UNCHANGED <<test_sessions, api_usage, genRuns>>

\* lines 517-535: one INSERT INTO test_questions of persistPlacementQuestions,
\* its RETURNING id pushed on the results
GenInsertQuestion ==
  /\ gen.pc = "insertQuestion"
  /\ \E ok \in BOOLEAN :
       IF ok
       THEN /\ test_questions' = Append(test_questions,
                  questionRow(gen.testId, gen.transforms[gen.persisted + 1]))
            /\ gen' = [gen EXCEPT !.persisted = gen.persisted + 1,
                                  !.results = Append(@,
                                     [question_text |-> gen.transforms[gen.persisted + 1].question_text,
                                      type |-> gen.transforms[gen.persisted + 1].type,
                                      question_id |-> Len(test_questions) + 1]),
                                  !.pc = IF gen.persisted + 1 = Len(gen.transforms)
                                         THEN "insertUsage" ELSE "insertQuestion"]
       ELSE /\ gen' = GenFail(gen, "storage")
            /\ UNCHANGED test_questions
  /\ UNCHANGED <<test_sessions, api_usage, genRuns>>

\* lines 228-251: INSERT INTO api_usage
GenInsertUsage ==
  /\ gen.pc = "insertUsage"
  /\ \E ok \in BOOLEAN :
       IF ok
       THEN /\ api_usage' = Append(api_usage,
                  [user_id |-> gen.user, request |-> Len(gen.calls)])
            /\ gen' = [gen EXCEPT !.pc = "done"]
       ELSE /\ gen' = GenFail(gen, "storage")
            /\ UNCHANGED api_usage
  /\ UNCHANGED <<test_sessions, test_questions, genRuns>>

\* lines 253-266 and the throws: the call is over
GenReturn ==
  /\ gen.pc \in {"done", "failed"}
  /\ gen' = IdleGen
  /\ UNCHANGED <<test_sessions, test_questions, api_usage, genRuns>>

\* ------------------------------------------------ summarizePlacementResults
\* !!text of a token text
NonEmpty(text) == text # <<>>

\* lines 637-675: stitch, then pick the renderer
stitchAndPick(s) ==
  LET combinedDocument == stitch(s.stage1RawResponse, s.stage3RawResponse)
      hasMultiStageContent == NonEmpty(combinedDocument) /\ TextLen(combinedDocument) > 50
  IN [s EXCEPT !.combinedDocument = combinedDocument,
               !.pc = IF hasMultiStageContent THEN "renderMarkdown" ELSE "renderLegacy"]

\* lines 727-740: stageProgress
stageProgress(s, pdf) ==
  LET flags == << NonEmpty(s.frameworkResponse), NonEmpty(s.stage2RawResponse),
                  NonEmpty(s.stage3RawResponse), pdf >>
  IN [stage1_completed |-> flags[1], stage2_completed |-> flags[2],
      stage3_completed |-> flags[3], pdf_generated |-> flags[4],
      completed_stages |-> Cardinality({i \in 1..4 : flags[i]})]

\* lines 703-763: the PDF is kept or not, the result is returned
finishSynthesis(s, pdf) ==
  [s EXCEPT !.pc = "done", !.pdf = pdf, !.returned = TRUE,
            !.progress = stageProgress(s, pdf)]

\* lines 462-490
SynStart(Goals, Scores) ==
  /\ syn.pc = "idle"
  /\ synRuns < MaxSynRuns
  /\ \E goal \in Goals, experience \in {"<null>", "some"}, score \in Scores :
       syn' = [IdleSyn EXCEPT !.pc = "stage1", !.goal = goal, !.experience = experience,
                              !.correct = score[1], !.total = score[2]]
  /\ synRuns' = synRuns + 1

\* a throwing framework call ends the stage calls
SynStage1_abortsOnThrow ==
  /\ syn.pc = "stage1"
  /\ \E out \in Stage1Outcomes :
       LET framework == IF out.kind = "throw"
                        THEN fallbackFramework(syn.goal, syn.experience, syn.correct, syn.total)
                        ELSE out.text
           s == [syn EXCEPT !.pc = "stage2", !.stage1 = out.kind,
                            !.frameworkResponse = framework,
                            !.stage1RawResponse = framework]
       IN syn' = IF out.kind = "throw" THEN stitchAndPick(s) ELSE s
  /\ UNCHANGED synRuns

\* lines 492-525: the framework call; the fallback framework when it throws
SynStage1 ==
  /\ syn.pc = "stage1"
  /\ \E out \in Stage1Outcomes :
       LET framework == IF out.kind = "throw"
                        THEN fallbackFramework(syn.goal, syn.experience, syn.correct, syn.total)
                        ELSE out.text
       IN syn' = [syn EXCEPT !.pc = "stage2", !.stage1 = out.kind,
                             !.frameworkResponse = framework,
                             !.stage1RawResponse = framework]
  /\ UNCHANGED synRuns

\* a failed structure call still goes on to the content call
SynStage2_alwaysStage3 ==
  /\ syn.pc = "stage2"
  /\ \E out \in Stage2Outcomes :
       LET text == IF out.kind = "throw" THEN <<>> ELSE out.text
       IN syn' = [syn EXCEPT !.stage2 = out.kind, !.stageStructure = text,
                             !.stage2RawResponse = text,
                             !.stage3Input = extractLearningPlanSection(text),
                             !.pc = "stage3"]
  /\ UNCHANGED synRuns

\* lines 543-593: the structure call; without a structure stage 3 is skipped
SynStage2 ==
  /\ syn.pc = "stage2"
  /\ \E out \in Stage2Outcomes :
       LET text == IF out.kind = "throw" THEN <<>> ELSE out.text
           s == [syn EXCEPT !.stage2 = out.kind, !.stageStructure = text,
                            !.stage2RawResponse = text]
       IN syn' = IF NonEmpty(text)
                 THEN [s EXCEPT !.stage3Input = extractLearningPlanSection(text),
                                !.pc = "stage3"]
                 ELSE stitchAndPick(s)
  /\ UNCHANGED synRuns

\* lines 595-675: the content call; the structure itself when it throws
SynStage3 ==
  /\ syn.pc = "stage3"
  /\ \E out \in Stage3Outcomes :
       syn' = stitchAndPick([syn EXCEPT !.stage3 = out.kind,
                 !.stage3RawResponse = IF out.kind = "throw" THEN syn.stage2RawResponse
                                       ELSE out.text])
  /\ UNCHANGED synRuns

\* a failed rendering of the stitched document ends the synthesis
SynRenderMarkdown_noLegacy ==
  /\ syn.pc = "renderMarkdown"
  /\ \E r \in RenderOutcomes :
       syn' = finishSynthesis([syn EXCEPT !.markdown = r], r = "buffer")
  /\ UNCHANGED synRuns

\* lines 677-691, 703-715: generateMarkdownPdf on the stitched document
SynRenderMarkdown ==
  /\ syn.pc = "renderMarkdown"
  /\ \E r \in RenderOutcomes :
       syn' = IF r \in {"throw", "null"}
              THEN [syn EXCEPT !.markdown = r, !.pc = "renderLegacy"]
              ELSE finishSynthesis([syn EXCEPT !.markdown = r], r = "buffer")
  /\ UNCHANGED synRuns

\* lines 693-722: generateLegacyPlanPdf
SynRenderLegacy ==
  /\ syn.pc = "renderLegacy"
  /\ \E r \in RenderOutcomes :
       syn' = finishSynthesis([syn EXCEPT !.legacy = r], r = "buffer")
  /\ UNCHANGED synRuns

\* lines 742-762: the caller has the result
SynReturn ==
  /\ syn.pc = "done"
  /\ syn' = IdleSyn
  /\ UNCHANGED synRuns

\* ------------------------------------- generateCompletion / generateContent
ClientCall(Callers) ==
  /\ client.pc = "idle"
  /\ clientRuns < MaxClientCalls
  /\ \E caller \in Callers :
       client' = [IdleClient EXCEPT !.pc = "post", !.caller = caller,
                                    !.provider = providerOf(caller)]
  /\ clientRuns' = clientRuns + 1

\* try { response = await client.post(...); return response.data }
\* catch (error) { throw new Error(...) }: one request, then the caller has
\* the data or the Error
ClientPost(Errors) ==
  /\ client.pc = "post"
  /\ \/ client' = [client EXCEPT !.pc = "returned", !.posts = @ + 1]
     \/ \E error \in Errors :
          client' = [client EXCEPT !.pc = "failed", !.posts = @ + 1,
                                   !.error = error,
                                   !.thrown = clientError(client.provider, error)]
  /\ UNCHANGED clientRuns

ClientReturn ==
  /\ client.pc \in {"returned", "failed"}
  /\ client' = IdleClient
  /\ UNCHANGED clientRuns

\* ----------------------------------------------------------- retryWithBackoff
\* lines 181-190: the options, lastError undefined, attempt = 1; with
\* maxRetries < 1 the loop is not entered and 'throw lastError' runs
RetryStart(Options) ==
  /\ retry.pc = "idle"
  /\ retryRuns < MaxRetryRuns
  /\ \E o \in Options :
       retry' = [IdleRetry EXCEPT
                   !.pc = IF 1 <= o.maxRetries THEN "invoke" ELSE "thrown",
                   !.thrown = IF 1 <= o.maxRetries THEN <<>> ELSE <<Undefined>>,
                   !.maxRetries = o.maxRetries,
                   !.initialDelayMs = o.initialDelayMs,
                   !.maxDelayMs = o.maxDelayMs,
                   !.attempt = 1]
  /\ retryRuns' = retryRuns + 1

\* lines 191-212: await fn(); its value is returned, its error is rethrown
\* when non-retryable or on the last attempt, else the delay is due
RetryInvoke(Errors) ==
  /\ retry.pc = "invoke"
  /\ \/ retry' = [retry EXCEPT !.pc = "returned",
                                !.invocations = @ + 1,
                                !.result = retry.invocations + 1]
     \/ \E error \in Errors :
          LET r == [retry EXCEPT !.invocations = @ + 1,
                                 !.errors = Append(@, error)]
          IN retry' = IF isNonRetryable(error) \/ retry.attempt = retry.maxRetries
                      THEN [r EXCEPT !.pc = "thrown", !.thrown = <<error>>]
                      ELSE [r EXCEPT !.pc = "wait"]
  /\ UNCHANGED retryRuns

\* lines 215-223: the delay, then attempt++ and the loop test
RetryWait ==
  /\ retry.pc = "wait"
  /\ LET r == [retry EXCEPT
                 !.waits = Append(@, delayMs(retry.attempt, retry.initialDelayMs,
                                             retry.maxDelayMs)),
                 !.attempt = @ + 1]
     IN retry' = IF r.attempt <= r.maxRetries
                 THEN [r EXCEPT !.pc = "invoke"]
                 ELSE [r EXCEPT !.pc = "thrown", !.thrown = <<r.errors[Len(r.errors)]>>]
  /\ UNCHANGED retryRuns

RetryReturn ==
  /\ retry.pc \in {"returned", "thrown"}
  /\ retry' = IdleRetry
  /\ UNCHANGED retryRuns

\* ----------------------------------------------------------- specifications
\* Spec: two requests in flight on the shared store, answering attempt 1
RaceRequests ==
  [user : {"u1"}, attempt : {1}, question : {1, 2}, response : {R_b}, skip : {FALSE}]

\* the judge throws, or returns a verdict with an ideal answer
RaceJudgeOutcomes == {out \in JudgeOutcomes : out.kind = "throw" \/ out.is_correct = "true"}

Next ==
  /\ \E c \in Calls :
       \/ Start(c, MaxCalls, RaceRequests)
       \/ Step(c, RaceJudgeOutcomes)
  /\ UNCHANGED <<genVars, synVars, clientVars, retryVars>>

Spec == Init /\ [][Next]_vars

\* SpecSeq: one request at a time, answering attempt 2 (three questions)
SeqRequests ==
  [user : {"u2"}, attempt : {2}, question : {3, 4, 5}, response : {R_b}, skip : BOOLEAN]

NextSeq ==
  /\ \/ Start(1, MaxSeqCalls, SeqRequests)
     \/ Step(1, JudgeOutcomes)
  /\ UNCHANGED <<genVars, synVars, clientVars, retryVars>>

SpecSeq == Init /\ [][NextSeq]_vars

\* SpecProbe: one request at a time, the whole input space of the route
ProbeUsers == {"", "u1", "u2"}
ProbeAttempts == {0} \cup AttemptIds \cup {Len(InitAttempts) + 1}
ProbeQuestions == {0} \cup QuestionIds \cup {Len(InitQuestions) + 1}
ProbeResponses == {Null, R_b, R_AnswerB, R_BOption, R_A, R_Empty, R_NoLetter}

ProbeRequests ==
  [user : ProbeUsers, attempt : ProbeAttempts, question : ProbeQuestions,
   response : {Null, R_b}, skip : BOOLEAN]
  \cup [user : {"u1"}, attempt : {1}, question : {1, 2}, response : ProbeResponses,
        skip : {FALSE}]

NextProbe ==
  /\ \/ Start(1, MaxProbeCalls, ProbeRequests)
     \/ Step(1, JudgeOutcomes)
  /\ UNCHANGED <<genVars, synVars, clientVars, retryVars>>

SpecProbe == Init /\ [][NextProbe]_vars

\* SpecBackfill: two requests in flight, the judge proposing either of two
\* ideal answers
BackfillJudgeOutcomes ==
  { [kind |-> "json", is_correct |-> "true",  ideal_answer |-> <<"o","k">>],
    [kind |-> "json", is_correct |-> "false", ideal_answer |-> <<"a","l","t">>] }

NextBackfill ==
  /\ \E c \in Calls :
       \/ Start(c, MaxBackfillCalls, RaceRequests)
       \/ Step(c, BackfillJudgeOutcomes)
  /\ UNCHANGED <<genVars, synVars, clientVars, retryVars>>

SpecBackfill == Init /\ [][NextBackfill]_vars

\* SpecGen: placement tests generated one after the other
GenUsers == {"", "u1"}

NextGen ==
  /\ \/ GenStart(GenUsers)
     \/ GenRequest(GenResponses)
     \/ GenInsertSession
     \/ GenInsertQuestion
     \/ GenInsertUsage
     \/ GenReturn
  /\ UNCHANGED <<answerVars, synVars, clientVars, retryVars>>

SpecGen == Init /\ [][NextGen]_vars

\* SpecSynth: one synthesis, every outcome of its calls
SynGoals == {"<null>", " ", "pass the exam"}
SynScores == {<<0, 0>>, <<1, 3>>, <<2, 3>>}

NextSynth ==
  /\ \/ SynStart(SynGoals, SynScores)
     \/ SynStage1
     \/ SynStage2
     \/ SynStage3
     \/ SynRenderMarkdown
     \/ SynRenderLegacy
     \/ SynReturn
  /\ UNCHANGED <<answerVars, genVars, clientVars, retryVars>>

SpecSynth == Init /\ [][NextSynth]_vars

\* SpecClient: calls of the generation clients by each of their callers
NextClient ==
  /\ \/ ClientCall(ClientCallers)
     \/ ClientPost(PostErrors)
     \/ ClientReturn
  /\ UNCHANGED <<answerVars, genVars, synVars, retryVars>>

SpecClient == Init /\ [][NextClient]_vars

\* SpecRetry: runs of retryWithBackoff over every error class; fn settles and
\* the timer fires, so a started run keeps stepping
FnErrors ==
  { {}, {"unauthorized"}, {"forbidden"}, {"not found"}, {"invalid"},
    {"invalid", "timeout"}, {"timeout"} }

RetryOptions ==
  {retryApiCall}
  \cup [maxRetries : 0..DefaultMaxRetries,
        initialDelayMs : {DefaultInitialDelayMs, DefaultMaxDelayMs},
        maxDelayMs : {DefaultMaxDelayMs}]

RetryStep == RetryInvoke(FnErrors) \/ RetryWait \/ RetryReturn

NextRetry ==
  /\ \/ RetryStart(RetryOptions)
     \/ RetryInvoke(FnErrors)
     \/ RetryWait
     \/ RetryReturn
  /\ UNCHANGED <<answerVars, genVars, synVars, clientVars>>

SpecRetry == Init /\ [][NextRetry]_vars /\ WF_retryVars(RetryStep)

\* ------------------------------------------------------------------- claims
RowsOf(a, q) == {r \in answers : r.attempt_id = a /\ r.question_id = q}
InFlight(c) == call[c].pc # "idle"
Responding(c) == call[c].pc = "respond"

\* C1: once a submitAnswer for (A, Q) has succeeded there is exactly one
\* AnswerRecord for (A, Q), under every interleaving; no pair ever has two
\* rows; a write that finds the pair present keeps the number of rows and
\* the row's id and leaves the submitted response and correctness in it.
C1_OneRowPerPair ==
  /\ \A a \in AttemptIds, q \in QuestionIds : Cardinality(RowsOf(a, q)) <= 1
  /\ \A p \in succeeded : Cardinality(RowsOf(p[1], p[2])) = 1

C1_OverwriteInPlace ==
  \A c \in Calls :
    (call[c].pc = "write" /\ call'[c].pc = "countTotal"
       /\ RowsOf(call[c].attempt, call[c].question) # {})
    => /\ Cardinality(answers') = Cardinality(answers)
       /\ {r.id : r \in answers'} = {r.id : r \in answers}
       /\ \E r \in answers' :
            /\ r.attempt_id = call[c].attempt /\ r.question_id = call[c].question
            /\ r.id \in {x.id : x \in RowsOf(call[c].attempt, call[c].question)}
            /\ r.user_response = call[c].userResponse
            /\ r.is_correct = call[c].isCorrect

C1_Uniqueness == [](C1_OneRowPerPair) /\ [][C1_OverwriteInPlace]_vars

\* a pair answered successfully, resubmitted in place, while an overlapping
\* submission of the same pair was rejected by the store
C1_Witness ==
  \E c \in Calls :
    /\ Responding(c) /\ call[c].status = "502"
    /\ <<call[c].attempt, call[c].question>> \in succeeded
    /\ resubmitted[call[c].attempt]

\* C2: per attempt the completion UPDATE (completed = true, end_time) is
\* executed at most once over any interleaving of submitAnswer calls, and
\* completed never goes back to false.
C2_SingleTransition ==
  \A a \in AttemptIds : completionWrites[a] <= 1

\* C3: synthesis runs, and results/plan are returned, only in the call that
\* found the attempt open and completed it; at most once per attempt.
C3_SynthesisOnlyOnTransition ==
  /\ \A a \in AttemptIds : synthRuns[a] <= 1
  /\ \A c \in Calls :
       (call[c].synthesized \/ call[c].hasResults \/ call[c].plan # "null")
       => ~call[c].attCompleted /\ call[c].marked

C6_ChoiceNormalisation ==
  \A c \in Calls :
    (Responding(c) /\ call[c].user = "u1" /\ call[c].attempt = 1 /\ call[c].question = 1
       /\ ~call[c].skip /\ questions[1].type = "multiple_choice"
       /\ questions[1].correct_answer = <<"B">>)
    => /\ call[c].response \in {R_b, R_AnswerB, R_BOption}
            => call[c].status = "200" /\ call[c].isCorrect = "true"
       /\ call[c].response \in {R_A, R_Empty, R_NoLetter}
            => call[c].status = "200" /\ call[c].isCorrect = "false"

\* C7: a judged (text or scenario) answer whose judge call threw, returned
\* non-JSON text or JSON without a boolean is_correct is answered 200 with
\* isCorrect false, and the AnswerRecord it wrote holds correctness false.
JudgeFailed(out) ==
  \/ out.kind \in {"throw", "nonjson", "jsonnull"}
  \/ out.kind = "json" /\ out.is_correct \notin {"true", "false"}

C7_FailClosed ==
  \A c \in Calls :
    (call[c].judged /\ JudgeFailed(call[c].judge))
    => /\ call[c].qType \in {"text", "scenario"}
       /\ call[c].isCorrect = "false"
       /\ call[c].status \in {"", "200"}
       /\ call[c].wrote
            => \E r \in RowsOf(call[c].attempt, call[c].question) :
                 r.is_correct = "false" /\ r.user_response = call[c].userResponse
       /\ Responding(c) => call[c].status = "200" /\ call[c].wrote

C7_Witness ==
  \E c \in Calls :
    /\ Responding(c) /\ call[c].judged /\ call[c].judge.kind = "throw"
    /\ call[c].qType = "scenario" /\ call[c].wrote /\ call[c].status = "200"

ValidationErrors == {"400 user_id", "400 attempt_id", "400 question_id", "400 response"}
GuardErrors == {"404 attempt", "403", "404 question", "400 mismatch"}

GuardOutcome(u, a, q) ==
  IF a \notin DOMAIN attempts THEN "404 attempt"
  ELSE IF attempts[a].user_id # u THEN "403"
  ELSE IF q \notin DOMAIN questions THEN "404 question"
  ELSE IF questions[q].test_id # attempts[a].test_id THEN "400 mismatch"
  ELSE "pass"

C9_GuardState ==
  \A c \in Calls :
    (Responding(c) /\ call[c].status \notin ValidationErrors)
    => LET g == GuardOutcome(call[c].user, call[c].attempt, call[c].question)
       IN IF g = "pass"
          THEN call[c].status \in {"200", "502"}
          ELSE /\ call[c].status = g
               /\ ~call[c].wrote /\ ~call[c].judged /\ ~call[c].backfilled
               /\ ~call[c].marked /\ ~call[c].synthesized

C9_GuardStep ==
  \A c \in Calls :
    (call[c].pc # "respond" /\ call'[c].pc = "respond" /\ call'[c].status \in GuardErrors)
    => UNCHANGED <<attempts, questions, answers, nextId, synthRuns, completionWrites>>

C9_Guards == [](C9_GuardState) /\ [][C9_GuardStep]_vars

\* a foreign attempt together with an absent question: 403
C9_Witness ==
  \E c \in Calls :
    /\ Responding(c) /\ call[c].status = "403"
    /\ call[c].question \notin DOMAIN questions
    /\ answers # {}

\* C10: a skipped submission stores response null and correctness false,
\* calls no evaluator and changes no question, whatever the question type;
\* inserting it raises the attempt's answered-count by one as any insert does.
C10_SkipState ==
  \A c \in Calls :
    (call[c].skip /\ call[c].pc \notin {"idle", "loadAttempt", "loadQuestion"}
       /\ call[c].status \in {"", "200"})
    => /\ call[c].userResponse = Null /\ call[c].isCorrect = "false"
       /\ ~call[c].judged /\ ~call[c].backfilled
       /\ call[c].wrote
            => \E r \in RowsOf(call[c].attempt, call[c].question) :
                 r.user_response = Null /\ r.is_correct = "false"
       /\ Responding(c)
            => /\ call[c].wrote
               /\ call[c].answered = Cardinality({r \in answers : r.attempt_id = call[c].attempt})

C10_SkipStep ==
  \A c \in Calls :
    /\ (call[c].skip /\ InFlight(c)) => questions' = questions
    /\ (call[c].pc = "write" /\ call'[c].pc = "countTotal" /\ call[c].existingId = 0)
       => Cardinality({r \in answers' : r.attempt_id = call[c].attempt})
            = Cardinality({r \in answers : r.attempt_id = call[c].attempt}) + 1

C10_Skip == [](C10_SkipState) /\ [][C10_SkipStep]_vars

\* a text question skipped although a response was typed
C10_Witness ==
  \E c \in Calls :
    /\ Responding(c) /\ call[c].skip /\ call[c].status = "200"
    /\ call[c].qType = "text" /\ call[c].response = R_b /\ call[c].answered = 1

\* C11: generateTest calls the Generation Client at most twice. The first call
\* uses the base prompt without the JSON-mode flag; a second call is made
\* exactly when the first response came back without a non-empty questions
\* array, and it uses the "return JSON only" prompt with the JSON-mode flag.
\* Two such responses end in the "empty result" failure; after a malformed
\* first and a valid second response the call either returns with every
\* valid question persisted in order, or fails for lack of a usable question
\* or on a storage error.
LacksQuestions(response) ==
  \/ response.kind \in {"notext", "prose"}
  \/ /\ response.kind \in {"json", "fenced"}
     /\ \/ response.payload.isNull
        \/ ~response.payload.hasArray
        \/ response.payload.questions = <<>>

ValidQuestionRows(sessionId, response) ==
  LET kept == SelectSeq(response.payload.questions,
                        LAMBDA q : Trim(q.question) # <<>>)
  IN [i \in 1..Len(kept) |-> questionRow(sessionId, transformQuestion(kept[i]))]

C12_CleanFailure ==
  (gen.pc = "failed" /\ gen.error \in {"empty result", "no usable questions"}) =>
    /\ Len(test_sessions) = gen.before.sessions
    /\ Len(test_questions) = gen.before.questions
    /\ Len(api_usage) = gen.before.usage

C12_Witness ==
  /\ gen.pc = "failed"
  /\ gen.error = "no usable questions"
  /\ Len(test_sessions) = 1
  /\ Len(api_usage) = 1

\* C13: once generateTest is over, with a result or with an error, every test
\* row's total_questions is the number of question rows stored for that test.
C13_TotalMatchesRows ==
  gen.pc \in {"idle", "done", "failed"} =>
    \A t \in 1..Len(test_sessions) :
      test_sessions[t].total_questions = Len(rowsOfSession(test_questions, t))

\* C14: in a synthesis result each stage flag is true exactly when that
\* stage's own generation call returned text, and false when the call failed,
\* was replaced by fallback content or was not made.
C14_FlagsAccurate ==
  syn.returned =>
    /\ syn.progress.stage1_completed <=> (syn.stage1 = "text")
    /\ syn.progress.stage2_completed <=> (syn.stage2 = "text")
    /\ syn.progress.stage3_completed <=> (syn.stage3 = "text")

\* C15: when the Stage-1 call throws or yields no text, the Stage-1 document
\* is the local template built from goal, experience and score; the pipeline
\* never goes past Stage 1 with an empty Stage-1 document.
C15_Stage1NeverEmpty ==
  syn.pc \notin {"idle", "stage1"} =>
    /\ syn.stage1RawResponse # <<>>
    /\ syn.stage1 \in {"throw", "notext"} =>
         syn.stage1RawResponse
           = fallbackFramework(syn.goal, syn.experience, syn.correct, syn.total)

\* C16: when Stage 2 fails (throws or yields no text), no Stage-3 call is made
\* and the combined document is exactly the Stage-1 document (or the fallback
\* template): a placeholder it holds is still there and nothing is appended.
C16_Stage2Failure ==
  (syn.pc \in {"renderMarkdown", "renderLegacy", "done"}
     /\ syn.stage2 \in {"throw", "notext"}) =>
    /\ syn.stage3 = "none"
    /\ syn.stage3RawResponse = <<>>
    /\ syn.combinedDocument = syn.stage1RawResponse
    /\ syn.stage1 = "throw" =>
         syn.combinedDocument
           = fallbackFramework(syn.goal, syn.experience, syn.correct, syn.total)

C16_Witness ==
  /\ syn.returned
  /\ syn.stage2 = "throw"
  /\ syn.stage1 = "text"
  /\ Includes(syn.combinedDocument, blockPlaceholder)

\* C17: when Stage 2 returned a skeleton and the Stage-3 call fails (throws or
\* yields no text), the text stitched into the document is that skeleton as
\* Stage 2 returned it, and the synthesis returns.
StitchedWith(document, detail) ==
  LET i == IF Includes(document, blockPlaceholder)
           THEN IndexOf(document, blockPlaceholder)
           ELSE IndexOf(document, barePlaceholder)
      n == IF Includes(document, blockPlaceholder) THEN 2 ELSE 1
  IN IF i = 0 THEN document \o <<"nl2">> \o detail
     ELSE SubSeq(document, 1, i - 1) \o detail \o SubSeq(document, i + n, Len(document))

C17_Stage3Fallback ==
  (syn.pc \in {"renderMarkdown", "renderLegacy", "done"}
     /\ syn.stage2 = "text" /\ syn.stage3 \in {"throw", "notext"}) =>
    /\ syn.stage3RawResponse = syn.stage2RawResponse
    /\ syn.combinedDocument = StitchedWith(syn.stage1RawResponse, syn.stage2RawResponse)

\* C18: when the synthesizer fails as a whole, the completing submitAnswer
\* still answers 200 with a boolean isCorrect, completed = true, answered and
\* total, and the answer row and the completion it wrote are still stored.
C18_SynthesisFailureAbsorbed ==
  \A c \in Calls :
    (call[c].pc = "respond" /\ call[c].synthesized /\ call[c].plan = "null") =>
      /\ call[c].status = "200"
      /\ call[c].isCorrect \in {"true", "false"}
      /\ call[c].completed
      /\ call[c].total > 0
      /\ call[c].answered >= call[c].total
      /\ call[c].hasResults
      /\ attempts[call[c].attempt].completed
      /\ \E r \in RowsOf(call[c].attempt, call[c].question) :
           /\ r.is_correct = call[c].isCorrect
           /\ r.user_response = call[c].userResponse

C18_Witness ==
  \E c \in Calls :
    /\ call[c].pc = "respond"
    /\ call[c].marked
    /\ call[c].synthesized
    /\ call[c].plan = "null"

\* C19 as stated: when rendering the stitched document fails, the synthesis
\* returns the stitched text and the flags, there is no rendered artifact and
\* the rendering flag is false.
MarkdownRenderFailed == syn.markdown \in {"throw", "null", "nonbuffer"}

C19_RenderFailure ==
  (syn.returned /\ MarkdownRenderFailed) =>
    /\ syn.combinedDocument = stitch(syn.stage1RawResponse, syn.stage3RawResponse)
    /\ ~syn.pdf
    /\ ~syn.progress.pdf_generated

\* C19, amended: when rendering the stitched document fails, the synthesis
\* returns the stitched text and the flags; if the renderer threw or gave
\* nothing the legacy plan is rendered instead, and the artifact is absent and
\* the rendering flag false exactly when that rendering gives no buffer too.
C19_RenderFailureAmended ==
  (syn.pc = "done" /\ MarkdownRenderFailed) =>
    /\ syn.returned
    /\ syn.combinedDocument = stitch(syn.stage1RawResponse, syn.stage3RawResponse)
    /\ syn.progress.stage1_completed = NonEmpty(syn.frameworkResponse)
    /\ syn.progress.stage2_completed = NonEmpty(syn.stage2RawResponse)
    /\ syn.progress.stage3_completed = NonEmpty(syn.stage3RawResponse)
    /\ syn.progress.pdf_generated = syn.pdf
    /\ syn.markdown \in {"throw", "null"} => syn.legacy # "none"
    /\ syn.markdown = "nonbuffer" => syn.legacy = "none"
    /\ syn.pdf <=> (syn.legacy = "buffer")

C19_Witness ==
  /\ syn.returned
  /\ syn.markdown = "throw"
  /\ syn.legacy = "throw"
  /\ ~syn.pdf
  /\ syn.stage3 = "text"

\* C20: the answer row is written by one atomic insert-or-update, so that no
\* submitAnswer call fails with a storage error when two calls for the same
\* (attempt, question) pair overlap.
C20_AtomicUpsert ==
  \A c \in Calls : call[c].status # "502"

\* C21: a question's stored correct answer changes only when it was absent or
\* blank, and then to the judge's ideal answer; once it is non-blank no
\* submitAnswer, sequential or overlapping, changes it, and no other field of
\* a question ever changes.
BlankAnswer(a) == a = Null \/ Trim(a) = <<>>

C21_BackfillOnly ==
  [][\A q \in DOMAIN questions :
       /\ questions'[q].type = questions[q].type
       /\ questions'[q].test_id = questions[q].test_id
       /\ questions'[q].correct_answer # questions[q].correct_answer =>
            /\ BlankAnswer(questions[q].correct_answer)
            /\ \E c \in Calls : /\ call[c].judged
                                /\ call[c].question = q
                                /\ questions'[q].correct_answer = call[c].idealAnswer]_vars

\* C22: every question row generateTest stored has non-empty question text; a
\* multiple_choice row has between 2 and 4 non-empty options and a correct
\* answer that is neither null nor 'null', 'n/a' or 'none'; any other row has
\* a null correct answer and no options.
C22_PersistedQuestionShape ==
  \A i \in 1..Len(test_questions) :
    LET r == test_questions[i]
    IN /\ r.question_text # <<>>
       /\ r.type \in {"multiple_choice", "text", "scenario"}
       /\ r.type = "multiple_choice" =>
            /\ Len(r.options) >= 2
            /\ Len(r.options) <= 4
            /\ \A o \in 1..Len(r.options) : r.options[o] # <<>>
            /\ r.correct_answer # Null
            /\ LowerStr(r.correct_answer)
                 \notin {<<"n","u","l","l">>, <<"n","/","a">>, <<"n","o","n","e">>}
       /\ r.type # "multiple_choice" =>
            /\ r.correct_answer = Null
            /\ r.options = <<>>

\* C23: the test row is stored before any of its question rows; the question
\* rows are stored one at a time in generation order without the dropped
\* ones; the returned list is in that order and every entry carries the id of
\* its own row.
KeptTexts(response) ==
  LET kept == SelectSeq(response.payload.questions, LAMBDA q : Trim(q.question) # <<>>)
  IN [i \in 1..Len(kept) |-> Trim(kept[i].question)]

C23_GenerationOrder ==
  /\ \A i \in 1..Len(test_questions) :
       test_questions[i].session_id \in 1..Len(test_sessions)
  /\ gen.pc \in {"insertQuestion", "insertUsage", "done"} =>
       LET texts == KeptTexts(gen.responses[Len(gen.responses)])
           rows == rowsOfSession(test_questions, gen.testId)
       IN /\ Len(rows) = gen.persisted
          /\ Len(gen.results) = gen.persisted
          /\ \A i \in 1..Len(rows) : rows[i].question_text = texts[i]
          /\ \A i \in 1..Len(gen.results) :
               /\ gen.results[i].question_text = texts[i]
               /\ gen.results[i].question_id \in 1..Len(test_questions)
               /\ test_questions[gen.results[i].question_id].session_id = gen.testId
               /\ test_questions[gen.results[i].question_id].question_text = texts[i]
               /\ i > 1 => gen.results[i].question_id > gen.results[i - 1].question_id
          /\ gen.pc = "done" => Len(gen.results) = Len(texts)

C23_Witness ==
  /\ gen.pc = "done"
  /\ Len(gen.results) = 3
  /\ gen.results[1].question_id > 1
  /\ Len(gen.responses[Len(gen.responses)].payload.questions) = 4

\* C24: in one synthesis the stage calls are made one at a time in the order
\* Stage 1, Stage 2, Stage 3, each after the one before has returned or
\* failed; Stage 3 is called exactly when Stage 2 produced a structure, and
\* Stage 2 is called whatever Stage 1 did.
AfterStages == syn.pc \in {"renderMarkdown", "renderLegacy", "done"}

C24_StageOrderState ==
  /\ syn.stage2 # "none" => syn.stage1 # "none"
  /\ syn.stage3 # "none" => syn.stage2 = "text"
  /\ syn.pc = "stage2" => (syn.stage1 # "none" /\ syn.stage2 = "none")
  /\ syn.pc = "stage3" => (syn.stage2 = "text" /\ syn.stage3 = "none")
  /\ AfterStages => syn.stage1 # "none" /\ syn.stage2 # "none"
  /\ AfterStages => (syn.stage3 # "none" <=> syn.stage2 = "text")

C24_StageOrderStep ==
  syn'.pc # "idle" =>
    /\ Cardinality({k \in {"stage1", "stage2", "stage3"} : syn'[k] # syn[k]}) <= 1
    /\ \A k \in {"stage1", "stage2", "stage3"} : syn'[k] # syn[k] => syn.pc = k

C24_StageOrder == [](C24_StageOrderState) /\ [][C24_StageOrderStep]_vars

C24_Witness ==
  /\ syn.returned
  /\ syn.stage1 = "throw"
  /\ syn.stage2 = "text"
  /\ syn.stage3 = "text"

\* C25: stitching never fails and loses nothing of the Stage-1 document: when
\* that document holds the placeholder marker the detail text stands in its
\* place and the marker is gone from the result, otherwise the detail text is
\* appended after the document.
C25_StitchTotal ==
  (AfterStages /\ syn.stage3RawResponse # <<>>) =>
    IF Includes(syn.stage1RawResponse, barePlaceholder)
    THEN /\ syn.combinedDocument
              = StitchedWith(syn.stage1RawResponse, syn.stage3RawResponse)
         /\ ~Includes(syn.combinedDocument, barePlaceholder)
    ELSE syn.combinedDocument
           = syn.stage1RawResponse \o <<"nl2">> \o syn.stage3RawResponse

\* C28: the input of Stage 3 is the suffix of the Stage-2 text that starts at
\* the first occurrence of the first heading of the list that occurs in the
\* text at all, even when a later heading of the list occurs before it; when
\* no heading occurs it is the whole Stage-2 text.
C28_Stage3Input ==
  (syn.stage2 = "text" /\ syn.pc # "stage2") =>
    LET text == syn.stage2RawResponse
        input == syn.stage3Input
        occurring == {m \in 1..Len(sectionMarkers) : Includes(text, sectionMarkers[m])}
    IN IF occurring = {} THEN input = text
       ELSE LET marker == sectionMarkers[MinOf(occurring)]
                dropped == Len(text) - Len(input)
            IN /\ dropped >= 0
               /\ input = SubSeq(text, dropped + 1, Len(text))
               /\ Len(input) >= Len(marker)
               /\ SubSeq(input, 1, Len(marker)) = marker
               /\ ~Includes(SubSeq(text, 1, dropped + Len(marker) - 1), marker)

C28_Witness ==
  /\ syn.pc = "stage3"
  /\ syn.stage2RawResponse = <<"LP", "sk", "H3", "sk">>
  /\ syn.stage3Input = <<"H3", "sk">>

\* C26: a transient or network-shaped failure of a provider request is retried
\* before the caller of the generation client (test generation, answer
\* judging, a synthesis stage) sees a failure.
Transient(error) ==
  \/ error.code \in {"ECONNRESET", "ECONNABORTED", "ETIMEDOUT"}
  \/ error.message \in {"network", "socket"}

C26_RetriedBeforeFailure ==
  (client.pc = "failed" /\ Transient(client.error)) => client.posts >= 2

\* C27: retryWithBackoff calls fn at most maxRetries times and ends; it
\* returns the first successful result; an error whose message contains
\* unauthorized, forbidden or not found is rethrown at once without a wait;
\* any other error is waited on and retried, and after the last allowed
\* attempt the last error is rethrown.
StatedNonRetryable(e) ==
  "unauthorized" \in e \/ "forbidden" \in e \/ "not found" \in e

AmendedNonRetryable(e) ==
  StatedNonRetryable(e) \/ ("invalid" \in e /\ "timeout" \notin e)

LastError == retry.errors[Len(retry.errors)]

RetryPolicy(NonRetryable(_)) ==
  /\ retry.invocations <= retry.maxRetries
  /\ retry.pc = "returned" =>
       /\ retry.result = retry.invocations
       /\ Len(retry.errors) = retry.invocations - 1
       /\ Len(retry.waits) = Len(retry.errors)
       /\ retry.thrown = <<>>
  /\ retry.pc = "wait" =>
       /\ ~NonRetryable(LastError)
       /\ retry.invocations < retry.maxRetries
  /\ \A i \in 1..(Len(retry.errors) - 1) : ~NonRetryable(retry.errors[i])
  /\ (retry.pc = "thrown" /\ retry.maxRetries >= 1) =>
       /\ retry.thrown = <<LastError>>
       /\ Len(retry.errors) = retry.invocations
       /\ Len(retry.waits) = retry.invocations - 1
       /\ NonRetryable(LastError) \/ retry.invocations = retry.maxRetries

RetryEnds == (retry.pc \in {"invoke", "wait"}) ~> (retry.pc \in {"returned", "thrown"})

C27_RetryPolicy == RetryPolicy(StatedNonRetryable)

\* C27 (amended): as C27, with the non-retryable errors being those whose
\* message contains unauthorized, forbidden or not found, or contains invalid
\* and not timeout.
C27_RetryPolicyAmended == [](RetryPolicy(AmendedNonRetryable)) /\ RetryEnds

C27_Witness ==
  /\ retry.pc = "thrown"
  /\ retry.maxRetries = DefaultMaxRetries
  /\ retry.errors = << {}, {"invalid"} >>
  /\ retry.waits = << 2 * DefaultInitialDelayMs >>
  /\ retry.thrown = << {"invalid"} >>

\* C29: the question of every AnswerRecord belongs to the test of the
\* record's attempt; an attempt's answered count is at most the number of
\* questions of its test and is the number of distinct questions of that test
\* with a record, which are the questions submitted successfully once no call
\* is in flight; a submission for one attempt changes no other attempt's
\* records, count or completed flag.
AnsweredQuestions(rows, a) == {r.question_id : r \in {x \in rows : x.attempt_id = a}}
QuestionsOfTest(t) == {q \in DOMAIN questions : questions[q].test_id = t}

C29_RecordsOfOwnTest ==
  /\ \A r \in answers :
       /\ r.attempt_id \in DOMAIN attempts
       /\ r.question_id \in QuestionsOfTest(attempts[r.attempt_id].test_id)
  /\ \A a \in AttemptIds :
       /\ Cardinality({r \in answers : r.attempt_id = a})
            <= Cardinality(QuestionsOfTest(attempts[a].test_id))
       /\ Cardinality({r \in answers : r.attempt_id = a})
            = Cardinality(AnsweredQuestions(answers, a))
       /\ {p[2] : p \in {x \in succeeded : x[1] = a}} \subseteq AnsweredQuestions(answers, a)
       /\ (\A c \in Calls : call[c].pc = "idle")
            => AnsweredQuestions(answers, a) = {p[2] : p \in {x \in succeeded : x[1] = a}}

C29_OtherAttemptsUntouched ==
  \A a \in AttemptIds :
    (\/ {r \in answers' : r.attempt_id = a} # {r \in answers : r.attempt_id = a}
     \/ attempts'[a] # attempts[a])
    => \E c \in Calls : call[c].attempt = a /\ call[c].pc \in {"write", "markCompleted"}

C29_AnswersWithinTest == [](C29_RecordsOfOwnTest) /\ [][C29_OtherAttemptsUntouched]_vars

C29_Witness ==
  \E c \in Calls :
    /\ Responding(c)
    /\ call[c].status = "400 mismatch"
    /\ call[c].attempt = 1
    /\ AnsweredQuestions(answers, 1) # {}
    /\ call[c].question \notin QuestionsOfTest(attempts[1].test_id)
    /\ AnsweredQuestions(answers, 2) = {}

\* C30: when every question of an attempt's test (a test with questions) has
\* been submitted by a call that returned successfully and no call is in
\* flight, the attempt is stored completed, whatever the interleaving of the
\* calls, two calls submitting the last two questions at once included.
FullyAnswered(a) ==
  /\ QuestionsOfTest(attempts[a].test_id) # {}
  /\ \A q \in QuestionsOfTest(attempts[a].test_id) : <<a, q>> \in succeeded

C30_FullyAnsweredIsCompleted ==
  \A a \in AttemptIds :
    (FullyAnswered(a) /\ \A c \in Calls : call[c].pc = "idle")
    => attempts[a].completed

C30_Witness ==
  /\ \A c \in Calls : call[c].pc = "idle"
  /\ FullyAnswered(1)
  /\ attempts[1].completed
  /\ completionWrites[1] = 2
  /\ started = 2

====
